---- MODULE Spec2Model ----
(***************************************************************************)
(* arrowmatrix: dense N-d matrices flattened row-major into the columns of *)
(* an Arrow table (Feather or Parquet file), with coordinate-indexed       *)
(* reads.  The model follows src/arrowmatrix/common.py, feather.py and     *)
(* parquet.py.  Python values are modelled by records:                     *)
(*   optional value   <<>> (None) or <<v>>                                 *)
(*   shape            [kind: "tuple" | "list" | "int", dims: Seq(Nat)]     *)
(*   table            [names: Seq(STRING), col: name -> Seq(value),        *)
(*                     meta: key -> text]                                  *)
(*   call result      [err: "" (no exception) or the exception's name, ...]*)
(* Text (the SHAPE metadata entry) is a sequence of one-character strings. *)
(***************************************************************************)
EXTENDS Integers, Sequences, FiniteSets, TLC

VARIABLES
    origin,  \* the matrix source the files are built from (never changed)
    files,   \* the filesystem: a function from the existing paths to files
    m,       \* the matrix object the last successful constructor returned: <<>> or <<object>>
    last     \* the last call made: its name, arguments, exception and return value

vars == <<origin, files, m, last>>

\* Largest size of one dimension of a matrix.
MaxDim == 2
\* Largest length of an index sequence passed to a coordinate read.
MaxLen == 2

None == <<>>
Some(v) == <<v>>
IsNone(o) == o = <<>>

Range(s) == {s[k] : k \in 1..Len(s)}

RECURSIVE SeqsUpTo(_, _)
\* All sequences over S of length 0..n.
SeqsUpTo(S, n) ==
    IF n = 0 THEN {<<>>}
    ELSE LET shorter == SeqsUpTo(S, n - 1)
         IN  shorter \cup {Append(s, x) : s \in {t \in shorter : Len(t) = n - 1}, x \in S}

RECURSIVE Concat(_)
\* Concatenation of a sequence of sequences.
Concat(ss) == IF ss = <<>> THEN <<>> ELSE Head(ss) \o Concat(Tail(ss))

---------------------------------------------------------------------------
(* numpy *)

RECURSIVE np_prod(_)
\* np.prod of a sequence of integers; the empty product is 1.
np_prod(s) == IF s = <<>> THEN 1 ELSE Head(s) * np_prod(Tail(s))

\* s[n:] of a Python sequence (n counted from 0).
PySliceFrom(s, n) == IF n >= Len(s) THEN <<>> ELSE SubSeq(s, n + 1, Len(s))

RECURSIVE np_arange(_, _, _)
\* np.arange(start, stop, step) for a positive step.
np_arange(start, stop, step) ==
    IF start >= stop THEN <<>>
    ELSE <<start>> \o np_arange(start + step, stop, step)

\* array * scalar, element-wise.
np_scale(a, k) == [x \in 1..Len(a) |-> a[x] * k]

\* np_iadd without broadcasting: operands of different lengths always raise.
np_iadd_strict(a, b) ==
    IF Len(b) = Len(a) THEN [err |-> "", v |-> [x \in 1..Len(a) |-> a[x] + b[x]]]
    ELSE [err |-> "ValueError: operands could not be broadcast together", v |-> <<>>]

\* "takers += b": in-place addition.  The right operand is broadcast to the
\* shape of the left one when it has one element; the left operand is the
\* output and is never resized, so any other difference of lengths raises.
np_iadd(a, b) ==
    IF Len(b) = Len(a) THEN [err |-> "", v |-> [x \in 1..Len(a) |-> a[x] + b[x]]]
    ELSE IF Len(b) = 1 THEN [err |-> "", v |-> [x \in 1..Len(a) |-> a[x] + b[1]]]
    ELSE [err |-> "ValueError: non-broadcastable output operand", v |-> <<>>]

\* np_ravel in column-major order: reshape(-1, order='F').
np_ravel_fortran(rows) ==
    IF rows = <<>> THEN <<>>
    ELSE Concat([j \in 1..Len(rows[1]) |-> [i \in 1..Len(rows) |-> rows[i][j]]])

\* A 2-d array (a sequence of rows) flattened row-major: reshape(-1).
np_ravel(rows) == Concat(rows)

RECURSIVE np_reshape(_, _)
\* A flat array reshaped row-major to the dimensions dims (at least one):
\* nested sequences, element (i0, i1, ...) being flat[i0*stride0 + i1*stride1 + ...].
np_reshape(flat, dims) ==
    IF Len(dims) = 1 THEN flat
    ELSE LET stride == np_prod(Tail(dims))
         IN  [i \in 1..dims[1] |->
                np_reshape(SubSeq(flat, (i - 1) * stride + 1, i * stride), Tail(dims))]

---------------------------------------------------------------------------
(* str(shape) and ast.literal_eval *)

Digits == <<"0", "1", "2", "3", "4", "5", "6", "7", "8", "9">>

RECURSIVE IntStr(_)
\* str(n) of a natural number.
IntStr(n) == IF n < 10 THEN <<Digits[n + 1]>>
             ELSE IntStr(n \div 10) \o <<Digits[(n % 10) + 1]>>

RECURSIVE JoinInts(_)
\* ", ".join(str(d) for d in dims)
JoinInts(dims) ==
    IF dims = <<>> THEN <<>>
    ELSE IF Len(dims) = 1 THEN IntStr(dims[1])
    ELSE IntStr(dims[1]) \o <<",", " ">> \o JoinInts(Tail(dims))

\* str() of a shape: "(2, 3)", "(5,)", "[2, 3]" or "5".
ShapeStr(shape) ==
    IF shape.kind = "int" THEN IntStr(shape.dims[1])
    ELSE IF shape.kind = "list" THEN <<"[">> \o JoinInts(shape.dims) \o <<"]">>
    ELSE IF Len(shape.dims) = 1 THEN <<"(">> \o IntStr(shape.dims[1]) \o <<",", ")">>
    ELSE <<"(">> \o JoinInts(shape.dims) \o <<")">>

DigitValue(c) == CHOOSE d \in 0..9 : Digits[d + 1] = c

RECURSIVE ParseInt(_, _)
\* The number written by the digit characters of text, after the digits
\* already read as acc.
ParseInt(text, acc) ==
    IF text = <<>> THEN acc
    ELSE ParseInt(Tail(text), 10 * acc + DigitValue(Head(text)))

RECURSIVE SplitItems(_, _)
\* The items of a comma-separated text, blanks dropped; cur is the item
\* being read.  A trailing comma adds no item.
SplitItems(text, cur) ==
    IF text = <<>> THEN (IF cur = <<>> THEN <<>> ELSE <<cur>>)
    ELSE IF Head(text) = "," THEN <<cur>> \o SplitItems(Tail(text), <<>>)
    ELSE IF Head(text) = " " THEN SplitItems(Tail(text), cur)
    ELSE SplitItems(Tail(text), Append(cur, Head(text)))

\* ast.literal_eval of the text of a shape.
literal_eval(text) ==
    LET inner == SubSeq(text, 2, Len(text) - 1)
        items == SplitItems(inner, <<>>)
        dims  == [k \in 1..Len(items) |-> ParseInt(items[k], 0)]
    IN  IF Head(text) = "(" THEN [kind |-> "tuple", dims |-> dims]
        ELSE IF Head(text) = "[" THEN [kind |-> "list", dims |-> dims]
        ELSE [kind |-> "int", dims |-> <<ParseInt(text, 0)>>]

Tuple(dims) == [kind |-> "tuple", dims |-> dims]
PyList(dims) == [kind |-> "list", dims |-> dims]
PyInt(n) == [kind |-> "int", dims |-> <<n>>]

---------------------------------------------------------------------------
(* pyarrow tables and pandas frames *)

\* OMX_VERSION = b'0.3.0a'
OMX_VERSION == <<"0", ".", "3", ".", "0", "a">>

\* The schema metadata pa.table(df) attaches to a table made from a frame.
PandasMeta == [k \in {"pandas"} |-> <<"{", "}">>]

\* len(table): the rows of a table.
num_rows(table) == IF table.names = <<>> THEN 0 ELSE Len(table.col[table.names[1]])

\* The name pyarrow gives the column that stores level k (from 0) of an
\* unnamed index.
IndexLevelName(k) == <<"__index_level_0__", "__index_level_1__", "__index_level_2__">>[k + 1]

\* The value of level k (from 1) of a full row-major MultiIndex at row r
\* (from 1).
LevelCode(levels, k, r) == ((r - 1) \div np_prod(PySliceFrom(levels, k))) % levels[k]

\* pa.table(df): the columns of the frame and, for a frame with a
\* MultiIndex, one more column per index level; a RangeIndex is kept in the
\* metadata only.
pa_table(df) ==
    LET idxnames == [k \in 1..Len(df.levels) |-> IndexLevelName(k - 1)]
        rows     == IF df.names = <<>> THEN 0 ELSE Len(df.col[df.names[1]])
    IN  [names |-> df.names \o idxnames,
         col   |-> [n \in Range(df.names) \cup Range(idxnames) |->
                      IF n \in Range(df.names) THEN df.col[n]
                      ELSE LET k == CHOOSE x \in 1..Len(idxnames) : idxnames[x] = n
                           IN  [r \in 1..rows |-> LevelCode(df.levels, k, r)]],
         meta  |-> PandasMeta]

\* table.cast(table.schema.with_metadata(metadata)) after the two entries
\* are set.
WithOmxMetadata(table, shape) ==
    [table EXCEPT !.meta = ("SHAPE" :> ShapeStr(shape)) @@ ("OMX_VERSION" :> OMX_VERSION) @@ @]

\* Table.select(names) / ParquetFile.read(columns=names): the named columns
\* in the order asked for, the schema metadata kept; a name that is no column
\* raises.
select(table, names) ==
    IF \E k \in 1..Len(names) : names[k] \notin Range(table.names)
    THEN [err |-> "KeyError", table |-> table]
    ELSE [err |-> "",
          table |-> [names |-> names,
                     col   |-> [n \in Range(names) |-> table.col[n]],
                     meta  |-> table.meta]]

\* take as a row filter: the rows whose offset is asked for, each once, in
\* the order of the table.
take_in_table_order(table, takers) ==
    IF \E k \in 1..Len(takers) : takers[k] < 0 \/ takers[k] >= num_rows(table)
    THEN [err |-> "IndexError", table |-> table]
    ELSE LET kept == SelectSeq([r \in 1..num_rows(table) |-> r - 1],
                               LAMBDA r : r \in Range(takers))
         IN  [err |-> "",
              table |-> [table EXCEPT !.col =
                           [n \in DOMAIN table.col |->
                              [k \in 1..Len(kept) |-> table.col[n][kept[k] + 1]]]]]

\* Table.take(takers): the rows at the given offsets, in the order given;
\* an offset outside 0 .. rows-1 raises.
take(table, takers) ==
    IF \E k \in 1..Len(takers) : takers[k] < 0 \/ takers[k] >= num_rows(table)
    THEN [err |-> "IndexError", table |-> table]
    ELSE [err |-> "",
          table |-> [table EXCEPT !.col =
                       [n \in DOMAIN table.col |->
                          [k \in 1..Len(takers) |-> table.col[n][takers[k] + 1]]]]]

---------------------------------------------------------------------------
(* sources *)

MatrixNames == <<"A", "B">>

NameIndex(n) == CHOOSE k \in 1..Len(MatrixNames) : MatrixNames[k] = n

\* The value stored at cell (i, j) of the source matrix n: every cell of
\* every matrix holds a different number, so that a value read back names
\* the one cell it came from.
SourceCell(n, i, j) == NameIndex(n) * 100 + i * 10 + j

\* An open OMX file of shape (R, C): its matrices under /data as 2-d arrays.
OmxFile(R, C) ==
    [kind   |-> "omx",
     shape  |-> <<R, C>>,
     names  |-> MatrixNames,
     data   |-> [n \in Range(MatrixNames) |->
                   [i \in 1..R |-> [j \in 1..C |-> SourceCell(n, i - 1, j - 1)]]],
     levels |-> <<>>]

\* A pandas frame of rows rows; levels are the level sizes of its MultiIndex
\* (<<>> for a RangeIndex).
DataFrame(rows, levels) ==
    [kind   |-> "df",
     shape  |-> <<>>,
     names  |-> MatrixNames,
     data   |-> [n \in Range(MatrixNames) |-> [r \in 1..rows |-> NameIndex(n) * 100 + r - 1]],
     levels |-> levels]

\* The 2-d matrices of an OMX file pre-loaded as a tall frame.
TallFrame(omx_file) ==
    [kind   |-> "df",
     shape  |-> <<>>,
     names  |-> omx_file.names,
     data   |-> [n \in Range(omx_file.names) |-> Concat(omx_file.data[n])],
     levels |-> <<>>]

\* The frame as pa_table reads it.
AsFrame(src) == [names |-> src.names, col |-> src.data, levels |-> src.levels]

---------------------------------------------------------------------------
(* ingest *)

\* omx_hdf5_2_to_arrow(omx_file, shape=shape): the tall table of the 2-d
\* matrices of an OMX file, or of a pre-loaded frame (which needs shape).
omx_hdf5_2_to_arrow(omx_file, shape) ==
    IF omx_file.kind = "df"
    THEN IF IsNone(shape)
         THEN [err |-> "MissingShapeError", table |-> pa_table(AsFrame(omx_file))]
         ELSE [err |-> "", table |-> WithOmxMetadata(pa_table(AsFrame(omx_file)), shape[1])]
    ELSE LET df == [names  |-> omx_file.names,
                    col    |-> [n \in Range(omx_file.names) |-> np_ravel(omx_file.data[n])],
                    levels |-> <<>>]
         IN  [err |-> "", table |-> WithOmxMetadata(pa_table(df), Tuple(omx_file.shape))]

\* omx_hdf5_1_to_arrow(omx_file, shape=shape) for a pre-loaded frame.
omx_hdf5_1_to_arrow(omx_file, shape) ==
    LET df == AsFrame(omx_file)
        rows == IF df.names = <<>> THEN 0 ELSE Len(df.col[df.names[1]])
        tupleLen == IF ~IsNone(shape) /\ shape[1].kind = "tuple" THEN Len(shape[1].dims) ELSE 0
        shape1 == IF tupleLen = 1 THEN Some(PyInt(shape[1].dims[1])) ELSE shape
    IN  IF tupleLen > 1 \/ (~IsNone(shape) /\ shape[1].kind = "tuple" /\ tupleLen = 0)
        THEN [err |-> "ValueError", table |-> pa_table(df)]
        ELSE IF IsNone(shape1)
        THEN [err |-> "", table |-> WithOmxMetadata(pa_table(df), PyInt(rows))]
        ELSE IF np_prod(shape1[1].dims) # rows
        THEN [err |-> "AssertionError", table |-> pa_table(df)]
        ELSE [err |-> "", table |-> WithOmxMetadata(pa_table(df), shape1[1])]

\* check_write_file with the flag inverted: it refuses when overwrite is
\* passed.
check_write_file_inverted(fs, filename, overwrite) ==
    filename \in DOMAIN fs /\ overwrite

\* check_write_file(filename, overwrite): TRUE when it raises FileExistsError.
check_write_file(fs, filename, overwrite) ==
    filename \in DOMAIN fs /\ ~overwrite

---------------------------------------------------------------------------
(* the two backends *)

Classes == {"FeatherMatrix", "ParquetMatrix"}

\* cls._write_arrow_table(filename, table, shape): the filesystem after the
\* table is written to filename in the format of cls.
write_arrow_table(cls, fs, filename, table) ==
    (filename :> [format |-> cls, table |-> table]) @@ fs

\* AbstractArrowMatrix.__init__: an int shape becomes a 1-tuple.
AbstractInit(cls, filename, omx_version, shape, table) ==
    [cls         |-> cls,
     filename    |-> filename,
     omx_version |-> omx_version,
     shape       |-> IF shape.kind = "int" THEN Tuple(shape.dims) ELSE shape,
     table       |-> table]

NoObject == <<>>

\* FeatherMatrix(filename): __init__ takes no shape argument; it reads the
\* version entry, then the shape entry, of the schema metadata.
FeatherInit(fs, filename, shape) ==
    IF ~IsNone(shape) THEN [err |-> "TypeError", obj |-> NoObject, warned |-> FALSE]
    ELSE IF filename \notin DOMAIN fs
    THEN [err |-> "FileNotFoundError", obj |-> NoObject, warned |-> FALSE]
    ELSE IF fs[filename].format # "FeatherMatrix"
    THEN [err |-> "ArrowInvalid", obj |-> NoObject, warned |-> FALSE]
    ELSE LET table == fs[filename].table
         IN  IF "OMX_VERSION" \notin DOMAIN table.meta \/ "SHAPE" \notin DOMAIN table.meta
             THEN [err |-> "KeyError", obj |-> NoObject, warned |-> FALSE]
             ELSE [err |-> "",
                   obj |-> Some(AbstractInit("FeatherMatrix", filename, table.meta["OMX_VERSION"],
                                             literal_eval(table.meta["SHAPE"]), table)),
                   warned |-> FALSE]

\* ParquetMatrix(filename, shape=shape): the shape argument is overwritten
\* by the shape entry of the schema metadata; a shape that disagrees with
\* the stored rows is warned about.
ParquetInit(fs, filename, shape) ==
    IF filename \notin DOMAIN fs
    THEN [err |-> "FileNotFoundError", obj |-> NoObject, warned |-> FALSE]
    ELSE IF fs[filename].format # "ParquetMatrix"
    THEN [err |-> "ArrowInvalid", obj |-> NoObject, warned |-> FALSE]
    ELSE LET table == fs[filename].table
         IN  IF "SHAPE" \notin DOMAIN table.meta \/ "OMX_VERSION" \notin DOMAIN table.meta
             THEN [err |-> "KeyError", obj |-> NoObject, warned |-> FALSE]
             ELSE LET shape1 == literal_eval(table.meta["SHAPE"])
                  IN  [err |-> "",
                       obj |-> Some(AbstractInit("ParquetMatrix", filename, table.meta["OMX_VERSION"],
                                                 shape1, table)),
                       warned |-> np_prod(shape1.dims) # num_rows(table)]

\* cls(filename, shape=shape)
New(cls, fs, filename, shape) ==
    IF cls = "FeatherMatrix" THEN FeatherInit(fs, filename, shape)
    ELSE ParquetInit(fs, filename, shape)

\* self._get_arrow_table(names=names); names is None or Some(list).
get_arrow_table(self, names) ==
    IF IsNone(names) THEN [err |-> "", table |-> self.table]
    ELSE select(self.table, names[1])

\* self.list_matrices()
list_matrices(self) == self.table.names

\* self.ndims
ndims(self) == Len(self.shape.dims)

---------------------------------------------------------------------------
(* construction *)

Failed(e, fs) == [err |-> e, fs |-> fs, obj |-> NoObject, warned |-> FALSE]

\* What a constructor call returns once the file is written: cls(to_filename).
Opened(cls, fs, to_filename) ==
    LET o == New(cls, fs, to_filename, None)
    IN  [err |-> o.err, fs |-> fs, obj |-> o.obj, warned |-> o.warned]

\* cls.from_hdf5(omx_file, to_filename, overwrite=overwrite, shape=shape)
from_hdf5(cls, fs, omx_file, to_filename, overwrite, shape) ==
    IF check_write_file(fs, to_filename, overwrite) THEN Failed("FileExistsError", fs)
    ELSE LET t == omx_hdf5_2_to_arrow(omx_file, shape)
         IN  IF t.err # "" THEN Failed(t.err, fs)
             ELSE Opened(cls, write_arrow_table(cls, fs, to_filename, t.table), to_filename)

\* cls.from_dataframe(dataframe, to_filename, overwrite=overwrite, shape=shape)
from_dataframe(cls, fs, dataframe, to_filename, overwrite, shape) ==
    IF check_write_file(fs, to_filename, overwrite) THEN Failed("FileExistsError", fs)
    ELSE LET shape1 == IF IsNone(shape) /\ dataframe.levels # <<>>
                       THEN Some(PyList(dataframe.levels)) ELSE shape
             t == omx_hdf5_1_to_arrow(dataframe, shape1)
         IN  IF t.err # "" THEN Failed(t.err, fs)
             ELSE Opened(cls, write_arrow_table(cls, fs, to_filename, t.table), to_filename)

\* cls.from_arrow(source, to_filename, names=names, overwrite=overwrite)
from_arrow(cls, fs, source, to_filename, names, overwrite) ==
    IF check_write_file(fs, to_filename, overwrite) THEN Failed("FileExistsError", fs)
    ELSE LET t == get_arrow_table(source, names)
         IN  IF t.err # "" THEN Failed(t.err, fs)
             ELSE Opened(cls, write_arrow_table(cls, fs, to_filename, t.table), to_filename)

\* self.get_matrix(name): the column, reshaped to self.shape.
get_matrix(self, name) ==
    LET t == get_arrow_table(self, Some(<<name>>))
    IN  IF t.err # "" THEN [err |-> t.err, out |-> <<>>]
        ELSE IF np_prod(self.shape.dims) # num_rows(t.table)
        THEN [err |-> "ValueError", out |-> <<>>]
        ELSE [err |-> "", out |-> np_reshape(t.table.col[name], self.shape.dims)]

---------------------------------------------------------------------------
(* coordinate reads *)

(* An index argument is [kind: "int" | "list", v: Seq(Int), name: None or  *)
(* Some(STRING)]: a scalar k has v = <<k>>; name is the argument's name    *)
(* attribute, if it has one.  attach_index is [kind: "bool", b, names] or  *)
(* [kind: "tuple", b, names].  A names argument is [kind: "str" | "list" | *)
(* "slice", v: Seq(STRING)].                                               *)

Letters == <<"i", "j", "k", "l", "m", "n", "o", "p", "q", "r", "s", "t", "u", "v", "w", "x", "y", "z">>

\* bool(attach_index)
Truthy(attach_index) ==
    IF attach_index.kind = "bool" THEN attach_index.b ELSE attach_index.names # <<>>

\* pd.MultiIndex.from_arrays(arrays, names=names)
MultiIndex_from_arrays(arrays, names) ==
    IF arrays = <<>> \/ \E k \in 1..Len(arrays) : Len(arrays[k]) # Len(arrays[1])
    THEN [err |-> "ValueError: all arrays must be same length", idx |-> None]
    ELSE [err |-> "", idx |-> Some([names |-> names, arrays |-> arrays])]

\* self._get_rc_preprocess(indexes, attach_index)
get_rc_preprocess(indexes, attach_index) ==
    LET index_names == [k \in 1..Len(indexes) |->
                          IF IsNone(indexes[k].name) THEN Some(Letters[k]) ELSE indexes[k].name]
        arrays == [k \in 1..Len(indexes) |-> indexes[k].v]
    IN  IF Truthy(attach_index)
        THEN LET mi == MultiIndex_from_arrays(arrays, index_names)
             IN  [err |-> mi.err, indexes |-> arrays, idx |-> mi.idx]
        ELSE [err |-> "", indexes |-> arrays, idx |-> None]

DimensionMismatch == "ValueError: number of indexes does not match ndims"

RECURSIVE TakersLoopStale(_, _, _, _)
\* TakersLoop with the stride taken before the counter is advanced:
\* shape[n-1:] in place of shape[n:].
TakersLoopStale(self, rest, n, takers) ==
    IF rest = <<>> THEN [err |-> "", v |-> takers]
    ELSE LET n1 == n + 1
             added == IF n1 >= ndims(self)
                      THEN np_iadd(takers, Head(rest))
                      ELSE np_iadd(takers,
                                   np_scale(Head(rest), np_prod(PySliceFrom(self.shape.dims, n))))
         IN  IF added.err # "" THEN added
             ELSE TakersLoopStale(self, Tail(rest), n1, added.v)

RECURSIVE TakersLoop(_, _, _, _)
\* The loop of _takers over indexes[1:]: rest are the arrays still to add,
\* n the counter before the next one, takers the sum so far.
TakersLoop(self, rest, n, takers) ==
    IF rest = <<>> THEN [err |-> "", v |-> takers]
    ELSE LET n1 == n + 1
             added == IF n1 >= ndims(self)
                      THEN np_iadd(takers, Head(rest))
                      ELSE np_iadd(takers,
                                   np_scale(Head(rest), np_prod(PySliceFrom(self.shape.dims, n1))))
         IN  IF added.err # "" THEN added
             ELSE TakersLoop(self, Tail(rest), n1, added.v)

\* _takers that refuses too few index arguments only.
takers_too_few_only(self, indexes, attach_index) ==
    IF Len(indexes) < ndims(self)
    THEN [err |-> DimensionMismatch, takers |-> <<>>, idx |-> None]
    ELSE LET pre == get_rc_preprocess(indexes, attach_index)
         IN  IF pre.err # "" THEN [err |-> pre.err, takers |-> <<>>, idx |-> None]
             ELSE LET first == np_scale(pre.indexes[1], np_prod(PySliceFrom(self.shape.dims, 1)))
                      sum   == TakersLoop(self, Tail(pre.indexes), 1, first)
                  IN  IF sum.err # "" THEN [err |-> sum.err, takers |-> <<>>, idx |-> None]
                      ELSE [err |-> "", takers |-> sum.v, idx |-> pre.idx]

\* self._takers(*indexes, attach_index=attach_index)
takers_(self, indexes, attach_index) ==
    IF Len(indexes) # ndims(self)
    THEN [err |-> DimensionMismatch, takers |-> <<>>, idx |-> None]
    ELSE LET pre == get_rc_preprocess(indexes, attach_index)
         IN  IF pre.err # "" THEN [err |-> pre.err, takers |-> <<>>, idx |-> None]
             ELSE LET first == np_scale(pre.indexes[1], np_prod(PySliceFrom(self.shape.dims, 1)))
                      sum   == TakersLoop(self, Tail(pre.indexes), 1, first)
                  IN  IF sum.err # "" THEN [err |-> sum.err, takers |-> <<>>, idx |-> None]
                      ELSE [err |-> "", takers |-> sum.v, idx |-> pre.idx]

NoFrame == [kind |-> "None", names |-> <<>>, col |-> <<>>, index |-> None]

\* self._get_rc_by_takers(names, takers) with the default method: one column
\* as a Series for a str, else the selected columns as a DataFrame.
get_rc_by_takers(self, names, takers) ==
    LET sel == get_arrow_table(self, Some(names.v))
        got == IF sel.err # "" THEN sel ELSE take(sel.table, takers)
    IN  IF got.err # "" THEN [err |-> got.err, out |-> NoFrame]
        ELSE [err |-> "",
              out |-> [kind  |-> IF names.kind = "str" THEN "Series" ELSE "DataFrame",
                       names |-> got.table.names,
                       col   |-> got.table.col,
                       index |-> None]]

\* self.get_rc_table(names, *indexes): the rows as a pyarrow table.
get_rc_table(self, names, indexes) ==
    LET t == takers_(self, indexes, [kind |-> "bool", b |-> FALSE, names |-> <<>>])
    IN  IF t.err # "" THEN [err |-> t.err, out |-> NoFrame]
        ELSE LET sel == get_arrow_table(self, Some(names.v))
                 got == IF sel.err # "" THEN sel ELSE take(sel.table, t.takers)
             IN  IF got.err # "" THEN [err |-> got.err, out |-> NoFrame]
                 ELSE [err |-> "",
                       out |-> [kind  |-> "Table",
                                names |-> got.table.names,
                                col   |-> got.table.col,
                                index |-> None]]

\* self.get_rc(names, *indexes, attach_index=attach_index)
get_rc(self, names, indexes, attach_index) ==
    LET t == takers_(self, indexes, attach_index)
    IN  IF t.err # "" THEN [err |-> t.err, out |-> NoFrame]
        ELSE LET r == get_rc_by_takers(self, names, t.takers)
             IN  IF r.err # "" THEN r
                 ELSE [err |-> "", out |-> [r.out EXCEPT !.index = t.idx]]

---------------------------------------------------------------------------
(* indexed access *)

(* A selector is [kind: "int" | "slice", k: Int, start, stop, step], the   *)
(* last three None or Some(Int).  An item is [tuple: BOOLEAN, names: a     *)
(* names argument, sels: Seq(selector)]; an item that is no tuple is the   *)
(* bare key m[names].                                                      *)

Slice(start, stop, step) == [kind |-> "slice", k |-> 0, start |-> start, stop |-> stop, step |-> step]
IntSel(k) == [kind |-> "int", k |-> k, start |-> None, stop |-> None, step |-> None]

\* "x or d" for an optional integer x: d when x is None or 0.
Or(x, d) == IF IsNone(x) \/ x = Some(0) THEN d ELSE x[1]

\* _cap(a, b) with b an integer.
cap(a, b) == IF IsNone(a) THEN b ELSE IF a[1] < b THEN a[1] ELSE b

\* _slice_to_range(s, size) of a slice.
slice_to_range(s, size) == np_arange(Or(s.start, 0), cap(s.stop, size), Or(s.step, 1))

\* _take_array with the number of rows as the stride.
take_array_row_stride(slice1, slice2, shape) ==
    LET range0 == slice_to_range(slice1, shape[1])
        range1 == slice_to_range(slice2, shape[2])
        combined == [a \in 1..Len(range0) |->
                       [b \in 1..Len(range1) |-> range0[a] * shape[1] + range1[b]]]
    IN  [takers |-> np_ravel(combined), shape |-> <<Len(range0), Len(range1)>>]

\* _take_array(slice1, slice2, shape): the grid of offsets, flattened
\* row-major, and its shape.
take_array(slice1, slice2, shape) ==
    LET range0 == slice_to_range(slice1, shape[1])
        range1 == slice_to_range(slice2, shape[2])
        combined == [a \in 1..Len(range0) |->
                       [b \in 1..Len(range1) |-> range0[a] * shape[2] + range1[b]]]
    IN  [takers |-> np_ravel(combined), shape |-> <<Len(range0), Len(range1)>>]

RECURSIVE PadItem(_, _)
\* "while len(item) < dims+1: item = item + (slice(None),)"; sels are the
\* elements of item after the first.
PadItem(sels, dims) ==
    IF Len(sels) + 1 < dims + 1 THEN PadItem(Append(sels, Slice(None, None, None)), dims)
    ELSE sels

\* "if isinstance(s, int): s = slice(s, s+1)"
AsSlice(s) == IF s.kind = "int" THEN Slice(Some(s.k), Some(s.k + 1), None) ELSE s

\* self[item] for a 2-d matrix.
getitem(self, item) ==
    LET dims   == Len(self.shape.dims)
        sels   == IF item.tuple THEN PadItem(item.sels, dims) ELSE <<>>
        names  == IF item.names.kind = "str" THEN [item.names EXCEPT !.kind = "list"]
                  ELSE item.names
        add_multiindex == Len(names.v) > 1
    IN  IF names.kind = "slice" THEN [err |-> "TypeError", out |-> NoFrame]
        ELSE IF Len(sels) < 2 THEN [err |-> "IndexError", out |-> NoFrame]
        ELSE LET slice1 == AsSlice(sels[1])
                 slice2 == AsSlice(sels[2])
                 grid   == take_array(slice1, slice2, self.shape.dims)
                 result == get_rc_by_takers(self, names, grid.takers)
                 n1     == grid.shape[2]
                 range0 == slice_to_range(slice1, self.shape.dims[1])
                 range1 == slice_to_range(slice2, self.shape.dims[2])
                 idx1   == [r \in 1..Len(grid.takers) |-> range0[((r - 1) \div n1) + 1]]
                 idx2   == [r \in 1..Len(grid.takers) |-> range1[((r - 1) % n1) + 1]]
             IN  IF result.err # "" THEN result
                 ELSE IF add_multiindex
                 THEN [err |-> "",
                       out |-> [result.out EXCEPT
                                  !.index = Some([names |-> <<None, None>>,
                                                  arrays |-> <<idx1, idx2>>])]]
                 ELSE [err |-> "",
                       out |-> [kind  |-> "ndarray",
                                names |-> <<>>,
                                col   |-> np_reshape(result.out.col[names.v[1]], grid.shape),
                                index |-> None]]

---------------------------------------------------------------------------
(* The program as a state machine: construction calls, opens and whole-   *)
(* matrix reads over a small filesystem.                                   *)

\* The paths the constructors write to, one per backend as in the tests
\* ("temp_skims.feathermatrix", "temp_skims.pqmx").
Paths == {"skims.feathermatrix", "skims.pqmx"}

ClassOf(path) == IF path = "skims.feathermatrix" THEN "FeatherMatrix" ELSE "ParquetMatrix"

\* A file written by plain pyarrow from the tall frame of the source: it
\* carries no OMX_VERSION and no SHAPE entry.
RawFile(format, omx_file) == [format |-> format, table |-> pa_table(AsFrame(TallFrame(omx_file)))]

Bool(b) == [kind |-> "bool", b |-> b, names |-> <<>>]

NoCall ==
    [op |-> "", cls |-> "", path |-> "", overwrite |-> FALSE, src |-> "", shape |-> None,
     names |-> None, indexes |-> <<>>, attach_index |-> Bool(FALSE), item |-> <<>>,
     err |-> "", warned |-> FALSE, idx |-> None, out |-> NoFrame]

Init ==
    /\ \E R \in 1..MaxDim, C \in 1..MaxDim : origin = OmxFile(R, C)
    /\ files = ("raw.feather" :> RawFile("FeatherMatrix", origin))
                 @@ ("raw.parquet" :> RawFile("ParquetMatrix", origin))
    /\ m = NoObject
    /\ last = NoCall

\* The state after a constructor call returned r: the file system it left,
\* and the object it returned when it raised nothing.
Constructed(r, call) ==
    /\ files' = r.fs
    /\ m' = IF r.err = "" THEN r.obj ELSE m
    /\ last' = [call EXCEPT !.err = r.err, !.warned = r.warned]
    /\ UNCHANGED origin

Rows == np_prod(origin.shape)

\* A shape with one column more than the source has: its product is never
\* the number of rows of the tall frame.
WiderShape == <<origin.shape[1], origin.shape[2] + 1>>

\* from_hdf5 of the OMX file, or of its pre-loaded frame without the shape,
\* with the shape, and with a shape that disagrees with the rows.
FromHdf5 ==
    \E to \in Paths, overwrite \in BOOLEAN,
       arg \in {<<"omx", None>>, <<"df", None>>, <<"df", Some(Tuple(origin.shape))>>,
                <<"df", Some(Tuple(WiderShape))>>} :
        Constructed(from_hdf5(ClassOf(to), files,
                              IF arg[1] = "omx" THEN origin ELSE TallFrame(origin),
                              to, overwrite, arg[2]),
                    [NoCall EXCEPT !.op = "from_hdf5", !.cls = ClassOf(to), !.path = to,
                                   !.overwrite = overwrite, !.src = arg[1], !.shape = arg[2]])

\* from_dataframe of a frame with a RangeIndex or with a MultiIndex, the
\* shape left out, wrong for the rows, or 2-d.
FromDataframe ==
    \E to \in Paths, overwrite \in BOOLEAN,
       arg \in {<<<<>>, None>>, <<origin.shape, None>>, <<<<>>, Some(PyInt(Rows + 1))>>,
                <<<<>>, Some(Tuple(origin.shape))>>} :
        Constructed(from_dataframe(ClassOf(to), files, DataFrame(Rows, arg[1]), to, overwrite, arg[2]),
                    [NoCall EXCEPT !.op = "from_dataframe", !.cls = ClassOf(to), !.path = to,
                                   !.overwrite = overwrite,
                                   !.src = IF arg[1] = <<>> THEN "df" ELSE "df-multiindex",
                                   !.shape = arg[2]])

\* from_arrow of the current object; the destination is never the file the
\* object reads from.
FromArrow ==
    /\ m # NoObject
    /\ \E to \in Paths \ {m[1].filename}, overwrite \in BOOLEAN,
          names \in {None, Some(<<"B", "A">>), Some(<<"A", "C">>)} :
        Constructed(from_arrow(ClassOf(to), files, m[1], to, names, overwrite),
                    [NoCall EXCEPT !.op = "from_arrow", !.cls = ClassOf(to), !.path = to,
                                   !.overwrite = overwrite, !.names = names])

\* cls(filename) or cls(filename, shape=shape) on any path.
Open ==
    \E cls \in Classes, filename \in Paths \cup {"raw.feather", "raw.parquet"},
       shape \in {None, Some(Tuple(origin.shape))} :
        LET r == New(cls, files, filename, shape)
        IN  /\ m' = IF r.err = "" THEN r.obj ELSE m
            /\ last' = [NoCall EXCEPT !.op = "open", !.cls = cls, !.path = filename,
                                      !.shape = shape,
                                      !.err = r.err, !.warned = r.warned]
            /\ UNCHANGED <<origin, files>>

GetMatrix ==
    /\ m # NoObject
    /\ \E name \in {"A", "B", "C"} :
        LET r == get_matrix(m[1], name)
        IN  /\ last' = [NoCall EXCEPT !.op = "get_matrix", !.names = Some(<<name>>),
                                      !.err = r.err,
                                      !.out = [NoFrame EXCEPT !.kind = "ndarray", !.col = r.out]]
            /\ UNCHANGED <<origin, files, m>>

Next == FromHdf5 \/ FromDataframe \/ FromArrow \/ Open \/ GetMatrix

Spec == Init /\ [][Next]_vars

---------------------------------------------------------------------------
(* Coordinate reads and indexed access on one opened matrix.  The matrix  *)
(* is built by one constructor call on an empty filesystem: from_hdf5 of a *)
(* 2-d OMX file, or from_dataframe of a frame with a RangeIndex (a 1-d     *)
(* matrix) or an N-level MultiIndex (an N-d matrix, N in 1..3).  The       *)
(* caller makes one call at a time and drops its result before the next.   *)

NoFiles == [p \in {} |-> p]

\* The frames from_dataframe is given: level sizes of 0..3 levels.
FrameLevels == SeqsUpTo(1..MaxDim, 3)

InitRead ==
    /\ \E to \in Paths :
        \/ \E R \in 1..MaxDim, C \in 1..MaxDim :
            /\ origin = OmxFile(R, C)
            /\ LET r == from_hdf5(ClassOf(to), NoFiles, origin, to, FALSE, None)
               IN  files = r.fs /\ m = r.obj
        \/ \E levels \in FrameLevels, n \in 1..MaxDim :
            /\ levels = <<>> \/ n = 1
            /\ origin = DataFrame(IF levels = <<>> THEN n ELSE np_prod(levels), levels)
            /\ LET r == from_dataframe(ClassOf(to), NoFiles, origin, to, FALSE, None)
               IN  files = r.fs /\ m = r.obj
    /\ last = NoCall

IntArg(k) == [kind |-> "int", v |-> <<k>>, name |-> None]
ListArg(s) == [kind |-> "list", v |-> s, name |-> None]

\* The index arguments tried for a dimension of size d: every in-range
\* scalar and every in-range sequence of length 1..MaxLen.
IndexArgs(d) ==
    {IntArg(k) : k \in 0..(d - 1)}
        \cup {ListArg(s) : s \in SeqsUpTo(0..(d - 1), MaxLen) \ {<<>>}}

RECURSIVE IndexTuples(_)
\* One index argument for each of the dimension sizes dims.
IndexTuples(dims) ==
    IF dims = <<>> THEN {<<>>}
    ELSE {<<a>> \o t : a \in IndexArgs(Head(dims)), t \in IndexTuples(Tail(dims))}

\* The argument lists tried on self: one per dimension, one too few, and
\* one too many (two scalars 0 or sequences [0] after the too few).
IndexCalls(self) ==
    LET dims == self.shape.dims
        few  == IndexTuples(SubSeq(dims, 1, Len(dims) - 1))
    IN  IndexTuples(dims)
          \cup few
          \cup {t \o <<x, y>> : t \in few, x \in {IntArg(0), ListArg(<<0>>)},
                                 y \in {IntArg(0), ListArg(<<0>>)}}

Str(n) == [kind |-> "str", v |-> <<n>>]
List(ns) == [kind |-> "list", v |-> ns]
AllNames == [kind |-> "slice", v |-> <<>>]

\* The names asked for: one name, two names in the reverse of the file's
\* order, and a list with a name that is no matrix.
NamesArgs == {Str("B"), List(<<"B", "A">>), List(<<"A", "C">>)}

Idle == last = NoCall

Takers ==
    /\ Idle
    /\ \E indexes \in IndexCalls(m[1]), attach \in BOOLEAN :
        LET r == takers_(m[1], indexes, Bool(attach))
        IN  last' = [NoCall EXCEPT !.op = "_takers", !.indexes = indexes,
                                   !.attach_index = Bool(attach), !.err = r.err,
                                   !.idx = r.idx,
                                   !.out = [NoFrame EXCEPT !.kind = "takers", !.col = r.takers]]
    /\ UNCHANGED <<origin, files, m>>

\* A pandas Series passed as an index argument: a sequence with a name.
SeriesArg(s, name) == [kind |-> "series", v |-> s, name |-> Some(name)]

\* attach_index given as a tuple of strings.
LevelNames(ns) == [kind |-> "tuple", b |-> TRUE, names |-> ns]

\* The calls of get_rc tried for the names of the label: the coordinate
\* (0, 0) given as lists or as named Series, with attach_index True or a
\* tuple of two, one or no strings.
LabelCalls ==
    {<<Str("B"), <<o, d>>, attach>> :
        o \in {ListArg(<<0>>), SeriesArg(<<0>>, "o")},
        d \in {ListArg(<<0>>), SeriesArg(<<0>>, "d")},
        attach \in {Bool(TRUE), LevelNames(<<"row", "col">>), LevelNames(<<"row">>),
                    LevelNames(<<>>)}}

GetRc ==
    /\ Idle
    /\ ndims(m[1]) = 2
    /\ \E call \in {<<names, indexes, Bool(attach)>> :
                        names \in NamesArgs, indexes \in IndexCalls(m[1]), attach \in BOOLEAN}
                    \cup LabelCalls :
        LET names == call[1]
            indexes == call[2]
            attach_index == call[3]
            r == get_rc(m[1], names, indexes, attach_index)
        IN  last' = [NoCall EXCEPT !.op = "get_rc", !.names = Some(names), !.indexes = indexes,
                                   !.attach_index = attach_index, !.err = r.err, !.out = r.out]
    /\ UNCHANGED <<origin, files, m>>

GetRcTable ==
    /\ Idle
    /\ ndims(m[1]) = 2
    /\ \E names \in NamesArgs, indexes \in IndexCalls(m[1]) :
        LET r == get_rc_table(m[1], names, indexes)
        IN  last' = [NoCall EXCEPT !.op = "get_rc_table", !.names = Some(names),
                                   !.indexes = indexes, !.err = r.err, !.out = r.out]
    /\ UNCHANGED <<origin, files, m>>

\* The selectors tried on an axis: integers up to the largest size, and
\* slices with each part left out or given.
Selectors ==
    {IntSel(k) : k \in 0..MaxDim}
        \cup {Slice(start, stop, step) :
                start \in {None, Some(0), Some(1)},
                stop \in {None, Some(1), Some(MaxDim + 1)},
                step \in {None, Some(1), Some(2)}}

\* m[names, s0, s1], m[names, s0], m[names,] and the bare m[name].
Items ==
    {[tuple |-> TRUE, names |-> names, sels |-> sels] :
        names \in {Str("B"), List(<<"A">>), List(<<"B", "A">>), AllNames},
        sels \in SeqsUpTo(Selectors, 2)}
      \cup {[tuple |-> FALSE, names |-> Str("A"), sels |-> <<>>]}

GetItem ==
    /\ Idle
    /\ ndims(m[1]) = 2
    /\ \E item \in Items :
        LET r == getitem(m[1], item)
        IN  last' = [NoCall EXCEPT !.op = "__getitem__", !.item = item, !.err = r.err,
                                   !.out = r.out]
    /\ UNCHANGED <<origin, files, m>>

\* The caller drops the result of the call.
Return ==
    /\ ~Idle
    /\ last' = NoCall
    /\ UNCHANGED <<origin, files, m>>

NextRead == Takers \/ GetRc \/ GetRcTable \/ GetItem \/ Return

SpecRead == InitRead /\ [][NextRead]_vars

---------------------------------------------------------------------------
(* Properties of the coordinate mapper (checked under SpecRead). *)

Self == m[1]
Dims == Self.shape.dims

RECURSIVE RowMajorOffset(_, _)
\* i0*(d1*...*d(N-1)) + i1*(d2*...*d(N-1)) + ... + i(N-1) for the
\* coordinates coords in a matrix of dimensions dims.
RowMajorOffset(dims, coords) ==
    IF coords = <<>> THEN 0
    ELSE Head(coords) * np_prod(Tail(dims)) + RowMajorOffset(Tail(dims), Tail(coords))

\* The k-th coordinate tuple of a list of index arguments.
CoordAt(indexes, k) == [d \in 1..Len(indexes) |-> indexes[d].v[k]]

\* The arguments are one sequence or scalar per dimension, all of one length.
EqualLengths(indexes) == \A d \in 1..Len(indexes) : Len(indexes[d].v) = Len(indexes[1].v)

AllLists(indexes) == \A d \in 1..Len(indexes) : indexes[d].kind = "list"

\* C1: for a shape of 1 to 3 dimensions and in-range coordinates given as
\* equal-length index arrays, _takers returns for each position the
\* row-major offset of its coordinates (i*C + j for a 2-d shape), and every
\* offset lies in 0 .. product(shape)-1.
C1_TakersRowMajor ==
    (last.op = "_takers" /\ Len(last.indexes) = Len(Dims) /\ EqualLengths(last.indexes))
        => /\ last.err = ""
           /\ Len(last.out.col) = Len(last.indexes[1].v)
           /\ \A k \in 1..Len(last.out.col) :
                /\ last.out.col[k] = RowMajorOffset(Dims, CoordAt(last.indexes, k))
                /\ last.out.col[k] \in 0..(np_prod(Dims) - 1)
                /\ Len(Dims) = 2 =>
                     last.out.col[k] = last.indexes[1].v[k] * Dims[2] + last.indexes[2].v[k]

\* _takers([1, 0], [1, 1], [1, 0]) on a 2 x 2 x 2 matrix returned offsets.
C1_Witness ==
    /\ last.op = "_takers"
    /\ Dims = <<2, 2, 2>>
    /\ last.indexes = <<ListArg(<<1, 0>>), ListArg(<<1, 1>>), ListArg(<<1, 0>>)>>
    /\ last.err = ""

\* C4: a call of _takers, get_rc or get_rc_table with fewer or more index
\* arguments than the matrix has dimensions fails with the dimension
\* mismatch error, whatever names are asked for, and returns no offsets,
\* label or rows.
C4_DimensionMismatch ==
    (last.op \in {"_takers", "get_rc", "get_rc_table"} /\ Len(last.indexes) # Len(Dims))
        => /\ last.err = DimensionMismatch
           /\ last.out.col = <<>>
           /\ last.idx = None

\* get_rc of a list with an unknown name and three index arguments on a 2-d
\* matrix failed with the dimension mismatch.
C4_Witness ==
    /\ last.op = "get_rc"
    /\ Len(Dims) = 2
    /\ Len(last.indexes) = 3
    /\ last.names = Some(List(<<"A", "C">>))
    /\ last.err = DimensionMismatch

\* Some two of the index sequences differ in length.
LengthsDiffer(indexes) ==
    \E d \in 1..Len(indexes), e \in 1..Len(indexes) : Len(indexes[d].v) # Len(indexes[e].v)

\* C9 as claimed: whenever two index sequences differ in length, with or
\* without a label, _takers fails and returns no offsets.
C9_NoBroadcast ==
    (/\ last.op = "_takers"
     /\ Len(last.indexes) = Len(Dims)
     /\ AllLists(last.indexes)
     /\ LengthsDiffer(last.indexes))
        => last.err # "" /\ last.out.col = <<>>

\* Every sequence after the first has the length of the first or length 1.
LaterBroadcastable(indexes) ==
    \A d \in 2..Len(indexes) : Len(indexes[d].v) \in {Len(indexes[1].v), 1}

\* The k-th coordinate tuple when sequences of length 1 are repeated.
BroadcastCoordAt(indexes, k) ==
    [d \in 1..Len(indexes) |-> IF Len(indexes[d].v) = 1 THEN indexes[d].v[1] ELSE indexes[d].v[k]]

\* C9 as amended: when two index sequences differ in length, _takers fails
\* and returns no offsets, except when no label is asked for and every
\* sequence after the first dimension's has the length of the first or
\* length 1; then the sequences of length 1 are broadcast and one row-major
\* offset per element of the first sequence is returned.
C9_BroadcastOnlyLater ==
    (/\ last.op = "_takers"
     /\ Len(last.indexes) = Len(Dims)
     /\ AllLists(last.indexes)
     /\ LengthsDiffer(last.indexes))
        => IF ~Truthy(last.attach_index) /\ LaterBroadcastable(last.indexes)
           THEN /\ last.err = ""
                /\ Len(last.out.col) = Len(last.indexes[1].v)
                /\ \A k \in 1..Len(last.out.col) :
                     last.out.col[k] = RowMajorOffset(Dims, BroadcastCoordAt(last.indexes, k))
           ELSE last.err # "" /\ last.out.col = <<>>

\* _takers([0, 1], [1]) on a 2 x 2 matrix without a label returned two
\* offsets.
C9_Witness ==
    /\ last.op = "_takers"
    /\ Dims = <<2, 2>>
    /\ last.indexes = <<ListArg(<<0, 1>>), ListArg(<<1>>)>>
    /\ ~Truthy(last.attach_index)
    /\ last.err = ""
    /\ last.out.col = <<1, 3>>

\* C10 as claimed: on a 2-d matrix, with an in-range scalar for one
\* dimension and a sequence of length L for the other, whichever dimension
\* the scalar is for, _takers returns the L offsets s*C + j[k], or
\* i[k]*C + s.
C10_ScalarEitherDimension ==
    (/\ last.op = "_takers"
     /\ Len(Dims) = 2
     /\ Len(last.indexes) = 2
     /\ \E d \in 1..2 : last.indexes[d].kind = "int" /\ last.indexes[3 - d].kind = "list")
        => /\ last.err = ""
           /\ LET L == IF last.indexes[1].kind = "list" THEN Len(last.indexes[1].v)
                       ELSE Len(last.indexes[2].v)
              IN  /\ Len(last.out.col) = L
                  /\ \A k \in 1..L :
                       last.out.col[k] =
                           IF last.indexes[1].kind = "int"
                           THEN last.indexes[1].v[1] * Dims[2] + last.indexes[2].v[k]
                           ELSE last.indexes[1].v[k] * Dims[2] + last.indexes[2].v[1]

---------------------------------------------------------------------------
(* Properties of the gathers on a 2-d matrix built from an OMX file       *)
(* (checked under SpecRead). *)

\* M_n[i, j]: the value of the source matrix n at row i, column j (from 0).
M(n, i, j) == origin.data[n][i + 1][j + 1]

FromOmx == origin.kind = "omx"

\* C2: get_rc(names, o, d) with in-range coordinate lists of one length L
\* returns L rows in the order of the request, row k holding for each
\* requested name n, in the requested order, the value M_n[o[k], d[k]];
\* with attach_index the rows are labelled (o[k], d[k]), without it they are
\* not; a single str name returns the one column of the same values.
C2_GetRcValues ==
    (/\ last.op = "get_rc"
     /\ FromOmx
     /\ Len(last.indexes) = 2
     /\ AllLists(last.indexes)
     /\ EqualLengths(last.indexes)
     /\ Range(last.names[1].v) \subseteq Range(MatrixNames))
        => LET names == last.names[1]
               o == last.indexes[1].v
               d == last.indexes[2].v
           IN  /\ last.err = ""
               /\ last.out.kind = (IF names.kind = "str" THEN "Series" ELSE "DataFrame")
               /\ last.out.names = names.v
               /\ DOMAIN last.out.col = Range(names.v)
               /\ \A n \in Range(names.v) :
                    /\ Len(last.out.col[n]) = Len(o)
                    /\ \A k \in 1..Len(o) : last.out.col[n][k] = M(n, o[k], d[k])
               /\ last.out.index =
                    (IF Truthy(last.attach_index)
                     THEN Some([names |-> <<Some("i"), Some("j")>>, arrays |-> <<o, d>>])
                     ELSE None)

\* get_rc(["B", "A"], [1, 1], [0, 1]) with a label on a 2 x 2 matrix: row 1
\* is asked for twice.
C2_Witness ==
    /\ last.op = "get_rc"
    /\ FromOmx
    /\ Dims = <<2, 2>>
    /\ last.names = Some(List(<<"B", "A">>))
    /\ last.indexes = <<ListArg(<<1, 1>>), ListArg(<<0, 1>>)>>
    /\ Truthy(last.attach_index)
    /\ last.err = ""

\* The index range a selector stands for on an axis of the given size: the
\* integer k is k..k+1; a slice starts at start (0 when left out), stops
\* before stop and before size, and advances by step (1 when left out).
ExpectedRange(sel, size) ==
    LET start == IF sel.kind = "int" THEN sel.k ELSE IF IsNone(sel.start) THEN 0 ELSE sel.start[1]
        stop  == IF sel.kind = "int" THEN sel.k + 1 ELSE IF IsNone(sel.stop) THEN size ELSE sel.stop[1]
        step  == IF sel.kind = "int" \/ IsNone(sel.step) THEN 1 ELSE sel.step[1]
        count == Cardinality({x \in start..(size - 1) : x < stop /\ (x - start) % step = 0})
    IN  [t \in 1..count |-> start + (t - 1) * step]

\* The selector of axis d (from 1) of an item: the full slice when the item
\* has none.
SelectorOf(item, d) == IF d <= Len(item.sels) THEN item.sels[d] ELSE Slice(None, None, None)

\* C7: m[name, s0, s1] with one name returns the dense array of shape
\* (len(range0), len(range1)) whose entry (a, b) is M[range0[a], range1[b]],
\* an integer selector k standing for k..k+1 and a selector missing at the
\* end of the item for the full range of its axis.
C7_GetItemBlock ==
    (/\ last.op = "__getitem__"
     /\ FromOmx
     /\ last.item.tuple
     /\ last.item.names.kind \in {"str", "list"}
     /\ Len(last.item.names.v) = 1)
        => LET n == last.item.names.v[1]
               range0 == ExpectedRange(SelectorOf(last.item, 1), Dims[1])
               range1 == ExpectedRange(SelectorOf(last.item, 2), Dims[2])
           IN  /\ last.err = ""
               /\ last.out.kind = "ndarray"
               /\ last.out.col = [a \in 1..Len(range0) |->
                                    [b \in 1..Len(range1) |-> M(n, range0[a], range1[b])]]

\* m["B", 0::2] or m["B", 0:MaxDim+1:2] on a 2 x 2 matrix, the second
\* selector missing: the first row, both columns.
C7_Witness ==
    /\ last.op = "__getitem__"
    /\ FromOmx
    /\ Dims = <<2, 2>>
    /\ last.item.tuple
    /\ last.item.names = Str("B")
    /\ Len(last.item.sels) = 1
    /\ last.item.sels[1].kind = "slice"
    /\ last.item.sels[1].step = Some(2)
    /\ last.item.sels[1].start = Some(0)
    /\ last.item.sels[1].stop # Some(1)
    /\ last.out.col = <<<<M("B", 0, 0), M("B", 0, 1)>>>>

\* C8 as claimed: m[:, s0, s1] succeeds and returns what passing the list
\* of all the names of list_matrices() returns: one column per matrix and
\* the two-level label of the grid.
C8_AllNamesSlice ==
    (/\ last.op = "__getitem__"
     /\ FromOmx
     /\ last.item.tuple
     /\ last.item.names.kind = "slice")
        => LET explicit == getitem(Self, [last.item EXCEPT !.names = List(list_matrices(Self))])
           IN  /\ last.err = ""
               /\ last.out = explicit.out
               /\ last.out.names = list_matrices(Self)

---------------------------------------------------------------------------
(* Properties of construction and opening (checked under Spec). *)

\* C3: from_hdf5 of an OMX file of shape (R, C), which flattens, writes and
\* re-opens in either backend, returns unless the destination is refused an
\* object whose shape is (R, C) and whose get_matrix(name) is, for every
\* name, the source matrix: entry (i, j) is M[i][j].
C3_RoundTrip ==
    (last.op = "from_hdf5" /\ last.src = "omx" /\ last.err # "FileExistsError")
        => /\ last.err = ""
           /\ m # NoObject
           /\ m[1].cls = last.cls
           /\ m[1].filename = last.path
           /\ m[1].shape = Tuple(origin.shape)
           /\ \A n \in Range(origin.names) :
                LET got == get_matrix(m[1], n)
                IN  /\ got.err = ""
                    /\ Len(got.out) = origin.shape[1]
                    /\ \A i \in 1..origin.shape[1] :
                         /\ Len(got.out[i]) = origin.shape[2]
                         /\ \A j \in 1..origin.shape[2] :
                              got.out[i][j] = SourceCell(n, i - 1, j - 1)

\* from_hdf5 of a 2 x MaxDim OMX file into a Parquet file succeeded.
C3_Witness ==
    /\ last.op = "from_hdf5"
    /\ last.src = "omx"
    /\ last.cls = "ParquetMatrix"
    /\ last.err = ""
    /\ origin.shape[1] = 2
    /\ origin.shape[2] = MaxDim
    /\ m # NoObject
    /\ m[1].cls = "ParquetMatrix"

\* C5 as claimed: opening a file of the backend whose schema metadata has
\* no SHAPE entry fails with MissingShapeError when no shape is passed, and
\* succeeds with the passed shape when one is.
C5_MissingShape ==
    (/\ last.op = "open"
     /\ last.path \in DOMAIN files
     /\ files[last.path].format = last.cls
     /\ "SHAPE" \notin DOMAIN files[last.path].table.meta)
        => IF IsNone(last.shape)
           THEN last.err = "MissingShapeError"
           ELSE last.err = "" /\ m # NoObject /\ m[1].filename = last.path
                /\ m[1].shape = last.shape[1]

Constructors == {"from_hdf5", "from_dataframe", "from_arrow"}

\* The paths whose existence or content a step changes.
Written ==
    {p \in DOMAIN files \cup DOMAIN files' :
        \/ p \notin DOMAIN files
        \/ p \notin DOMAIN files'
        \/ files'[p] # files[p]}

\* C6: a constructor called with a destination that exists and without
\* overwrite fails with FileExistsError and leaves the filesystem as it
\* was; a step changes no file but the destination of a constructor call,
\* and that only when it did not exist or overwrite was passed.
C6_NoOverwrite ==
    [][/\ (last'.op \in Constructors /\ last'.path \in DOMAIN files /\ ~last'.overwrite)
            => (last'.err = "FileExistsError" /\ files' = files /\ m' = m)
       /\ \A p \in Written :
            /\ last'.op \in Constructors
            /\ p = last'.path
            /\ (p \notin DOMAIN files \/ last'.overwrite)]_vars

\* from_arrow into a destination an earlier call wrote was refused.
C6_Witness ==
    /\ last.op = "from_arrow"
    /\ ~last.overwrite
    /\ last.path \in DOMAIN files
    /\ last.err = "FileExistsError"

---------------------------------------------------------------------------
(* Properties of the row label and of opening inconsistent files. *)

\* C11 as claimed: when get_rc is called with attach_index a tuple of as
\* many strings as the matrix has dimensions, the levels of the row label
\* are named by those strings in dimension order; otherwise (the label
\* being attached) each level is named by the declared name of its index
\* array, or by the letter of its position when the array has no name.
C11_LevelNames ==
    (/\ last.op = "get_rc"
     /\ last.err = ""
     /\ Truthy(last.attach_index))
        => /\ last.out.index # None
           /\ last.out.index[1].names =
                (IF last.attach_index.kind = "tuple"
                      /\ Len(last.attach_index.names) = Len(Dims)
                 THEN [k \in 1..Len(Dims) |-> Some(last.attach_index.names[k])]
                 ELSE [k \in 1..Len(Dims) |->
                         IF IsNone(last.indexes[k].name) THEN Some(Letters[k])
                         ELSE last.indexes[k].name])

\* The table's declared shape multiplies to something else than its rows.
Inconsistent(table) ==
    /\ "SHAPE" \in DOMAIN table.meta
    /\ np_prod(literal_eval(table.meta["SHAPE"]).dims) # num_rows(table)

\* The last call opened the file at last.path: it was cls(filename), or a
\* constructor that got as far as returning cls(to_filename).
OpenedPath ==
    \/ last.op = "open" /\ last.path \in DOMAIN files
    \/ last.op \in Constructors /\ last.err = ""

\* C12 as claimed: opening a persisted table whose declared shape's product
\* differs from its stored row count always gives the caller an error or a
\* warning, with the Feather backend as with the Parquet backend; when it
\* is a warning, the handle is returned and serves the stored table.
C12_MismatchVisible ==
    (OpenedPath /\ Inconsistent(files[last.path].table))
        => /\ last.err # "" \/ last.warned
           /\ last.warned => /\ m # NoObject
                             /\ m[1].filename = last.path
                             /\ m[1].table = files[last.path].table

====
